---------------------------- MODULE Spec2Model ----------------------------
(***************************************************************************)
(* A model of the Telegram message-deleter bot of src/bot.py: the policy   *)
(* state (flagged_words, banned_words and the three auto_delete_* flags),  *)
(* the command handlers that change it, and monitor_messages, which        *)
(* classifies a text message and deletes it.                               *)
(*                                                                         *)
(* Text is a sequence of characters.  A character is a one-character       *)
(* string; a character outside ASCII is written by its code point, as in   *)
(* "U+201A".  The handlers are coroutines: a handler runs without          *)
(* interruption from one await of a network call to the next, and the      *)
(* handlers of different updates interleave at those awaits.               *)
(***************************************************************************)
EXTENDS Integers, Sequences, FiniteSets, TLC

(***************************************************************************)
(* Characters and the classes of Python's str methods and re module.      *)
(***************************************************************************)
AsciiUpper ==
    <<"A", "B", "C", "D", "E", "F", "G", "H", "I", "J", "K", "L", "M",
      "N", "O", "P", "Q", "R", "S", "T", "U", "V", "W", "X", "Y", "Z">>

AsciiLower ==
    <<"a", "b", "c", "d", "e", "f", "g", "h", "i", "j", "k", "l", "m",
      "n", "o", "p", "q", "r", "s", "t", "u", "v", "w", "x", "y", "z">>

\* The accented letters of the character classes of lines 107 and 134, and
\* their other case: U+00D9 U+00D3 U+00D4 U+00C8 U+00DC U+00CE U+00DA U+00D6
\* U+00DB are the capitals of U+00F9 U+00F3 U+00F4 U+00E8 U+00FC U+00EE U+00FA
\* U+00F6 U+00FB.
AccentUpper ==
    <<"U+00D9", "U+00D3", "U+00D4", "U+00C8", "U+00DC", "U+00CE", "U+00DA",
      "U+00D6", "U+00DB">>

AccentLower ==
    <<"U+00F9", "U+00F3", "U+00F4", "U+00E8", "U+00FC", "U+00EE", "U+00FA",
      "U+00F6", "U+00FB">>

Range(f) == {f[i] : i \in DOMAIN f}

AsciiLetters == Range(AsciiUpper) \cup Range(AsciiLower)

Digits == {"0", "1", "2", "3", "4", "5", "6", "7", "8", "9"}

\* [a-zA-Z0-9]
AsciiAlnum == AsciiLetters \cup Digits

\* \w of a str pattern: the alphanumeric characters and the underscore.
WordChars ==
    AsciiAlnum \cup {"_"} \cup Range(AccentUpper) \cup Range(AccentLower)

\* \s, and the separators of str.split().
Whitespace == {" ", "\t", "\n"}

\* str.lower() of one character.
lower_char(c) ==
    IF \E i \in DOMAIN AsciiUpper : AsciiUpper[i] = c
    THEN AsciiLower[CHOOSE i \in DOMAIN AsciiUpper : AsciiUpper[i] = c]
    ELSE IF \E i \in DOMAIN AccentUpper : AccentUpper[i] = c
    THEN AccentLower[CHOOSE i \in DOMAIN AccentUpper : AccentUpper[i] = c]
    ELSE c

\* str.lower()
lower(s) == [i \in 1..Len(s) |-> lower_char(s[i])]

\* p occurs in s at position i.
MatchAt(s, p, i) ==
    /\ i >= 1
    /\ i + Len(p) - 1 <= Len(s)
    /\ \A j \in 1..Len(p) : s[i + j - 1] = p[j]

\* Python's `p in s`: p is a contiguous substring of s.
Contains(s, p) == \E i \in 1..(Len(s) - Len(p) + 1) : MatchAt(s, p, i)

\* The first position >= from where p occurs in s, 0 when there is none.
FirstAt(s, p, from) ==
    LET hits == {i \in from..(Len(s) - Len(p) + 1) : MatchAt(s, p, i)}
    IN  IF hits = {} THEN 0 ELSE CHOOSE i \in hits : \A k \in hits : i <= k

\* re.search of part1.*part2.*...  with re.DOTALL: the parts occur in s in
\* this order without overlapping, from position `from` on.
RECURSIVE SearchInOrder(_, _, _)
SearchInOrder(s, parts, from) ==
    IF parts = <<>> THEN TRUE
    ELSE LET i == FirstAt(s, Head(parts), from)
         IN  /\ i # 0
             /\ SearchInOrder(s, Tail(parts), i + Len(Head(parts)))

\* str.split(): the maximal runs of characters that are not whitespace.
RECURSIVE split(_)
split(s) ==
    IF s = <<>> THEN <<>>
    ELSE IF Head(s) \in Whitespace THEN split(Tail(s))
    ELSE LET stops == {i \in 1..Len(s) : s[i] \in Whitespace}
             n == IF stops = {} THEN Len(s) + 1
                  ELSE CHOOSE i \in stops : \A k \in stops : i <= k
         IN  <<SubSeq(s, 1, n - 1)>> \o split(SubSeq(s, n, Len(s)))

\* ' '.join(args)
RECURSIVE join(_)
join(args) ==
    IF args = <<>> THEN <<>>
    ELSE IF Len(args) = 1 THEN Head(args)
    ELSE Head(args) \o <<" ">> \o join(Tail(args))

(***************************************************************************)
(* is_promotional_message (lines 90-142).                                  *)
(***************************************************************************)
\* Lines 95-101.
promo_keywords ==
    <<<<"a", "i", "r", "d", "r", "o", "p">>,
      <<"d", "r", "o", "p">>,
      <<"t", "o", "k", "e", "n">>,
      <<"c", "o", "i", "n">>,
      <<"c", "r", "y", "p", "t", "o">>,
      <<"f", "r", "e", "e">>,
      <<"e", "a", "r", "n">>,
      <<"p", "r", "o", "f", "i", "t">>,
      <<"r", "e", "f", "e", "r">>,
      <<"r", "e", "f", "e", "r", "r", "a", "l">>,
      <<"b", "o", "n", "u", "s">>,
      <<"r", "e", "w", "a", "r", "d">>,
      <<"w", "i", "t", "h", "d", "r", "a", "w", "a", "l">>,
      <<"w", "i", "t", "h", "d", "r", "a", "w">>,
      <<"m", "e", "t", "a", " ", "c", "o", "r", "e">>,
      <<"m", "e", "t", "a", "c", "o", "r", "e">>,
      <<"b", "a", "s", "e">>,
      <<"n", "e", "t", "w", "o", "r", "k", " ", "i", "s", "s", "u", "e">>,
      <<"s", "e", "r", "v", "e", "r", " ", "i", "s", "s", "u", "e">>,
      <<"n", "o", "t", "i", "c", "e", " ", "f", "r", "o", "m">>,
      <<"d", "e", "a", "r", " ", "u", "s", "e", "r", "s">>,
      <<"c", "u", "r", "r", "e", "n", "t", "l", "y", " ", "e", "x", "p", "e",
        "r", "i", "e", "n", "c", "i", "n", "g">>,
      <<"t", "e", "a", "m", " ", "i", "s", " ", "w", "o", "r", "k", "i", "n",
        "g">>,
      <<"c", "o", "n", "t", "i", "n", "u", "e", " ", "r", "e", "f", "e", "r",
        "r", "i", "n", "g">>,
      <<"m", "o", "r", "e", " ", "y", "o", "u", " ", "r", "e", "f", "e",
        "r">>,
      <<"t", "h", "a", "n", "k", "s", " ", "f", "o", "r", " ", "y", "o", "u",
        "r", " ", "p", "a", "t", "i", "e", "n", "c", "e">>>>

\* The literal "bot" of bot_mention_pattern and of the patterns of lines
\* 134 and 135.
bot_literal == <<"b", "o", "t">>

\* The positions e at which a match of \w*bot that starts at position i
\* can end, under re.IGNORECASE: word characters from i on, then "bot".
WordsThenBotEnds(s, i) ==
    {e \in (i + 2)..Len(s) :
        /\ MatchAt(lower(s), bot_literal, e - 2)
        /\ \A k \in i..(e - 3) : s[k] \in WordChars}

\* The positions at which a match of @\w*bot that starts at position i can
\* end.
BotMentionEnds(s, i) ==
    IF i \in 1..Len(s) /\ s[i] = "@" THEN WordsThenBotEnds(s, i + 1) ELSE {}

\* Line 104 and line 113: re.search(r'@\w*bot\b', text, re.IGNORECASE).
\* "t" is a word character, so \b holds where the text ends or a character
\* that is not a word character follows.
has_bot_mentions(text) ==
    \E i \in 1..Len(text) : \E e \in BotMentionEnds(text, i) :
        e = Len(text) \/ text[e + 1] \notin WordChars

\* The character class of line 107, as the source file holds it.
excessive_emoji_class ==
    {"U+201A", "U+00F9", "U+00F3", "U+00D4", "U+220F", "U+00E8", "U+F8FF",
     "U+00FC", "U+00EE", "U+2022", "U+00FA", "U+00D6", "U+00FB", "U+00B0"}

\* The repetition count {5,} of line 107.
ExcessiveEmojiRun == 5

\* Line 107 and line 114: re.search(r'[...]{5,}', text), case-sensitive.
has_excessive_emojis(text) ==
    \E i \in 1..(Len(text) - ExcessiveEmojiRun + 1) :
        \A k \in i..(i + ExcessiveEmojiRun - 1) :
            text[k] \in excessive_emoji_class

\* Line 110: the number of entries of promo_keywords that occur in
\* text_lower.
keyword_matches(text_lower) ==
    Cardinality({n \in DOMAIN promo_keywords :
                    Contains(text_lower, promo_keywords[n])})

\* Lines 128-133: the patterns word.*word(.*word), each a list of the
\* literals that must occur in order.
promotional_word_patterns ==
    <<<<<<"n", "o", "t", "i", "c", "e", " ", "f", "r", "o", "m">>,
        <<"c", "o", "r", "e">>>>,
      <<<<"d", "e", "a", "r", " ", "u", "s", "e", "r", "s">>,
        <<"e", "x", "p", "e", "r", "i", "e", "n", "c", "i", "n", "g">>>>,
      <<<<"s", "e", "r", "v", "e", "r">>,
        <<"i", "s", "s", "u", "e">>,
        <<"w", "i", "t", "h", "d", "r", "a", "w", "a", "l">>>>,
      <<<<"c", "o", "n", "t", "i", "n", "u", "e">>,
        <<"r", "e", "f", "e", "r", "r", "i", "n", "g">>,
        <<"f", "r", "i", "e", "n", "d", "s">>>>,
      <<<<"m", "o", "r", "e", " ", "y", "o", "u", " ", "r", "e", "f", "e",
          "r">>,
        <<"p", "r", "o", "f", "i", "t">>>>,
      <<<<"t", "h", "a", "n", "k", "s">>,
        <<"p", "a", "t", "i", "e", "n", "c", "e">>,
        <<"s", "u", "p", "p", "o", "r", "t">>>>>>

\* The character class of line 134 under re.IGNORECASE, in lower case.
alert_class_lower ==
    {"U+201A", "U+00F9", "U+00F3", "U+00F4", "U+220F", "U+00E8"}

\* The repetition count {3,} of line 134.
AlertRun == 3

\* A run of AlertRun characters of the class of line 134 starts at i.
AlertRunAt(s, i) ==
    /\ i >= 1
    /\ i + AlertRun - 1 <= Len(s)
    /\ \A k \in i..(i + AlertRun - 1) : lower_char(s[k]) \in alert_class_lower

\* Line 134: [...]{3,}.*@\w*bot.*[...]{3,} with re.IGNORECASE | re.DOTALL.
alert_mention_pattern(text) ==
    \E i \in 1..Len(text) :
        /\ AlertRunAt(text, i)
        /\ \E a \in (i + AlertRun)..Len(text) :
             \E e \in BotMentionEnds(text, a) :
                \E j \in (e + 1)..Len(text) : AlertRunAt(text, j)

\* The literals of line 135, as the source file holds them.
check_mark == <<"U+201A", "U+00FA", "U+00D6">>

arrow_mark == <<"U+201A", "U+00FB", "U+00B0", "U+00D4", "U+220F", "U+00E8">>

\* The positions at which a match of mark@\w*bot that starts at position i
\* can end, under re.IGNORECASE.
MarkedMentionEnds(s, mark, i) ==
    IF MatchAt(lower(s), lower(mark), i)
    THEN BotMentionEnds(s, i + Len(mark))
    ELSE {}

\* The positions that \s* can reach from position p.
AfterSpaces(s, p) ==
    {q \in p..(Len(s) + 1) : \A k \in p..(q - 1) : s[k] \in Whitespace}

\* Line 135: the three marked mentions in a row, whitespace between them.
mention_chain_pattern(text) ==
    \E i \in 1..Len(text) :
      \E e1 \in MarkedMentionEnds(text, check_mark, i) :
        \E p2 \in AfterSpaces(text, e1 + 1) :
          \E e2 \in MarkedMentionEnds(text, arrow_mark, p2) :
            \E p3 \in AfterSpaces(text, e2 + 1) :
              MarkedMentionEnds(text, check_mark, p3) # {}

\* Lines 127-140: some pattern of promotional_patterns is found in text.
promotional_patterns(text) ==
    \/ \E n \in DOMAIN promotional_word_patterns :
          SearchInOrder(lower(text), promotional_word_patterns[n], 1)
    \/ alert_mention_pattern(text)
    \/ mention_chain_pattern(text)

\* The thresholds of lines 117, 120 and 123.
MinKeywords == 2

MinKeywordsWithSignal == 1

\* is_promotional_message when a bot mention or a run of emoji is enough
\* without a keyword.
is_promotional_message_on_signal(text) ==
    LET k == keyword_matches(lower(text))
    IN  \/ k >= MinKeywords
        \/ has_bot_mentions(text)
        \/ has_excessive_emojis(text)
        \/ promotional_patterns(text)

\* Lines 90-142.
is_promotional_message(text) ==
    LET k == keyword_matches(lower(text))
    IN  \/ k >= MinKeywords
        \/ has_bot_mentions(text) /\ k >= MinKeywordsWithSignal
        \/ has_excessive_emojis(text) /\ k >= MinKeywordsWithSignal
        \/ promotional_patterns(text)

(***************************************************************************)
(* The link patterns of monitor_messages (lines 450-456), each searched    *)
(* in the original text with re.IGNORECASE.                                *)
(***************************************************************************)
\* One character of the alternation of lines 451 and 452.  [$-_] is the
\* range from "$" to "_", which holds the digits, the capitals and "%", so
\* the %XX alternative adds nothing.
UrlChars ==
    AsciiAlnum \cup
    {"$", "%", "&", "'", "(", ")", "*", "+", ",", "-", ".", "/", ":", ";",
     "<", "=", ">", "?", "@", "[", "\\", "]", "^", "_", "!"}

\* The literal p, then one character of UrlChars.
LiteralThenUrlChar(text, p) ==
    \E i \in 1..Len(text) :
        /\ MatchAt(lower(text), p, i)
        /\ i + Len(p) <= Len(text)
        /\ text[i + Len(p)] \in UrlChars

\* Line 451: http[s]?://(...)+
url_scheme(text) ==
    \/ LiteralThenUrlChar(text, <<"h", "t", "t", "p", ":", "/", "/">>)
    \/ LiteralThenUrlChar(text, <<"h", "t", "t", "p", "s", ":", "/", "/">>)

\* Line 452: www\.(...)+
url_www(text) == LiteralThenUrlChar(text, <<"w", "w", "w", ".">>)

\* Line 453: (?:label\.)+[a-zA-Z]{2,}.  A match ends with one character of
\* [a-zA-Z0-9], a dot and two letters, and any such four characters are a
\* match.
url_domain(text) ==
    \E i \in 1..(Len(text) - 3) :
        /\ text[i] \in AsciiAlnum
        /\ text[i + 1] = "."
        /\ text[i + 2] \in AsciiLetters
        /\ text[i + 3] \in AsciiLetters

\* Line 454: t\.me/\w+
url_tme(text) ==
    \E i \in 1..Len(text) :
        /\ MatchAt(lower(text), <<"t", ".", "m", "e", "/">>, i)
        /\ i + 5 <= Len(text)
        /\ text[i + 5] \in WordChars

\* Line 455: @\w+\.\w+
url_at(text) ==
    \E i \in 1..Len(text) : \E d \in (i + 2)..(Len(text) - 1) :
        /\ text[i] = "@"
        /\ \A k \in (i + 1)..(d - 1) : text[k] \in WordChars
        /\ text[d] = "."
        /\ text[d + 1] \in WordChars

\* Lines 450-462: some pattern of url_patterns is found in original_text.
url_patterns(text) ==
    \/ url_scheme(text)
    \/ url_www(text)
    \/ url_domain(text)
    \/ url_tme(text)
    \/ url_at(text)

(***************************************************************************)
(* The policy state (lines 19-24) and the handlers' runs.                  *)
(***************************************************************************)
\* Line 17.  The ids are wider than 32 bits and only ever compared, so each
\* is written as its digits.
ADMIN_IDS == {"5727413041", "-1002139907201"}

VARIABLES
    flagged_words,           \* line 20: a set of phrases
    banned_words,            \* line 21: a set of phrases
    auto_delete_links,       \* line 22
    auto_delete_joins,       \* line 23
    auto_delete_promotions,  \* line 24
    runs,                    \* the handler runs suspended at an await
    event,                   \* the run that reached its end or its verdict
                             \* in the last step
    probe,                   \* a text and what is_promotional_message made
                             \* of it
    log                      \* the commands that ended, in the order they
                             \* ended in, when the specification keeps them

globals ==
    <<flagged_words, banned_words, auto_delete_links, auto_delete_joins,
      auto_delete_promotions>>

vars == <<globals, runs, event, probe, log>>

\* The five globals as one value.
policy ==
    [flagged |-> flagged_words, banned |-> banned_words,
     links |-> auto_delete_links, joins |-> auto_delete_joins,
     promotions |-> auto_delete_promotions]

\* Lines 20-24.
initial_policy ==
    [flagged |-> {}, banned |-> {}, links |-> FALSE, joins |-> TRUE,
     promotions |-> TRUE]

SetPolicy(p) ==
    /\ flagged_words' = p.flagged
    /\ banned_words' = p.banned
    /\ auto_delete_links' = p.links
    /\ auto_delete_joins' = p.joins
    /\ auto_delete_promotions' = p.promotions

(***************************************************************************)
(* is_admin and is_bot_admin (lines 63-88).  get_chat_member returns the   *)
(* member's status or raises; "error" stands for the exception.            *)
(***************************************************************************)
\* Line 69.
in_admin_ids(user_id) == user_id \in ADMIN_IDS

\* is_admin when a lookup that raised counts as an administrator.
is_admin_status_fail_open(status) ==
    status \in {"administrator", "creator", "error"}

\* is_admin when line 75 names ADMINISTRATOR alone: the owner of the chat
\* is no administrator.
is_admin_status_without_owner(status) == status = "administrator"

\* Lines 73-77: the status is ADMINISTRATOR or OWNER ("creator"); False
\* when get_chat_member raised.
is_admin_status(status) == status \in {"administrator", "creator"}

\* Lines 63-77, for a sender whose lookup ended with `status` ("none" when
\* no lookup was made).
is_admin(user_id, status) == in_admin_ids(user_id) \/ is_admin_status(status)

\* is_bot_admin returning True when get_chat_member raised (line 87).
is_bot_admin_fail_open(status) == status \in {"administrator", "error"}

\* Lines 81-88: the bot's status is ADMINISTRATOR; False when
\* get_chat_member raised.
is_bot_admin(status) == status = "administrator"

(***************************************************************************)
(* The rules of monitor_messages (lines 421-462).                          *)
(***************************************************************************)
no_verdict == [should_delete |-> FALSE, reason |-> "", word |-> <<>>]

\* Lines 427-431 and 435-439: the phrases of `words` that occur in
\* message_text.  The loop stops at the first one in the set's iteration
\* order, which is any of them.
matching_words(words, message_text) ==
    {word \in words : Contains(message_text, word)}

\* The rules with the link rule ahead of the promotional rule.
classify_links_before_promotions(text, p) ==
    LET message_text == lower(text)
        flagged == matching_words(p.flagged, message_text)
        banned == matching_words(p.banned, message_text)
    IN  IF flagged # {}
        THEN {[should_delete |-> TRUE, reason |-> "flagged word", word |-> w] :
                 w \in flagged}
        ELSE IF banned # {}
        THEN {[should_delete |-> TRUE, reason |-> "banned word", word |-> w] :
                 w \in banned}
        ELSE IF p.links /\ url_patterns(text)
        THEN {[should_delete |-> TRUE, reason |-> "contains link",
               word |-> <<>>]}
        ELSE IF p.promotions /\ is_promotional_message(text)
        THEN {[should_delete |-> TRUE,
               reason |-> "promotional/spam content", word |-> <<>>]}
        ELSE {no_verdict}

\* The rules with the link rule applied whatever auto_delete_links is.
classify_links_always(text, p) ==
    LET message_text == lower(text)
        flagged == matching_words(p.flagged, message_text)
        banned == matching_words(p.banned, message_text)
    IN  IF flagged # {}
        THEN {[should_delete |-> TRUE, reason |-> "flagged word", word |-> w] :
                 w \in flagged}
        ELSE IF banned # {}
        THEN {[should_delete |-> TRUE, reason |-> "banned word", word |-> w] :
                 w \in banned}
        ELSE IF p.promotions /\ is_promotional_message(text)
        THEN {[should_delete |-> TRUE,
               reason |-> "promotional/spam content", word |-> <<>>]}
        ELSE IF url_patterns(text)
        THEN {[should_delete |-> TRUE, reason |-> "contains link",
               word |-> <<>>]}
        ELSE {no_verdict}

\* The rules with the link rule (lines 447-462) ahead of the word rules.
classify_links_first(text, p) ==
    LET message_text == lower(text)
        flagged == matching_words(p.flagged, message_text)
        banned == matching_words(p.banned, message_text)
    IN  IF p.links /\ url_patterns(text)
        THEN {[should_delete |-> TRUE, reason |-> "contains link",
               word |-> <<>>]}
        ELSE IF flagged # {}
        THEN {[should_delete |-> TRUE, reason |-> "flagged word", word |-> w] :
                 w \in flagged}
        ELSE IF banned # {}
        THEN {[should_delete |-> TRUE, reason |-> "banned word", word |-> w] :
                 w \in banned}
        ELSE IF p.promotions /\ is_promotional_message(text)
        THEN {[should_delete |-> TRUE,
               reason |-> "promotional/spam content", word |-> <<>>]}
        ELSE {no_verdict}

\* Lines 421-462: the verdicts the rules can reach for `text` when the
\* globals hold p.
classify(text, p) ==
    LET message_text == lower(text)
        flagged == matching_words(p.flagged, message_text)
        banned == matching_words(p.banned, message_text)
    IN  IF flagged # {}
        THEN {[should_delete |-> TRUE, reason |-> "flagged word", word |-> w] :
                 w \in flagged}
        ELSE IF banned # {}
        THEN {[should_delete |-> TRUE, reason |-> "banned word", word |-> w] :
                 w \in banned}
        ELSE IF p.promotions /\ is_promotional_message(text)
        THEN {[should_delete |-> TRUE,
               reason |-> "promotional/spam content", word |-> <<>>]}
        ELSE IF p.links /\ url_patterns(text)
        THEN {[should_delete |-> TRUE, reason |-> "contains link",
               word |-> <<>>]}
        ELSE {no_verdict}

\* The toggles as they are, read with the word sets as they were when the
\* module was loaded.
policy_read_first_words ==
    [policy EXCEPT !.flagged = initial_policy.flagged,
                   !.banned = initial_policy.banned]

\* The word sets as they are, read with the toggles as they were when the
\* module was loaded.
policy_read_first_toggles ==
    [policy EXCEPT !.links = initial_policy.links,
                   !.promotions = initial_policy.promotions]

\* The globals as monitor_messages reads them at lines 427, 435, 442 and
\* 448, all in one stretch without an await.
policy_read == policy

(***************************************************************************)
(* The bodies of the command handlers, after the is_admin check.  Each     *)
(* gives the globals it leaves and the reply it sends.  context.args is    *)
(* the text after the command, split at whitespace.                        *)
(***************************************************************************)
\* An add that takes out a word that is in the set.
add_word_toggling(words, word) ==
    IF word \in words THEN words \ {word} ELSE words \cup {word}

\* Line 253 and line 267: set.add.
add_word(words, word) == words \cup {word}

\* Line 282 and line 299: set.remove of a word that is in the set.
remove_word(words, word) == words \ {word}

\* The phrase as typed but for its whitespace: no lower().
phrase_of_as_typed(args) == join(args)

\* Lines 252, 266, 280 and 297.
phrase_of(args) == lower(join(args))

\* flag_command without the check of line 248.
flag_body_unchecked(p, text) ==
    [policy |-> [p EXCEPT !.flagged = add_word(@, phrase_of(split(text)))],
     reply |-> "has been flagged!"]

\* Lines 248-254.
flag_body(p, text) ==
    LET args == split(text)
    IN  IF args = <<>>
        THEN [policy |-> p, reply |-> "Please provide a word to flag!"]
        ELSE [policy |-> [p EXCEPT !.flagged = add_word(@, phrase_of(args))],
              reply |-> "has been flagged!"]

\* Lines 262-268.
ban_body(p, text) ==
    LET args == split(text)
    IN  IF args = <<>>
        THEN [policy |-> p, reply |-> "Please provide a word to ban!"]
        ELSE [policy |-> [p EXCEPT !.banned = add_word(@, phrase_of(args))],
              reply |-> "has been banned!"]

\* unflag_command without the check of line 281: set.remove raises
\* KeyError for a phrase that is not in the set.
unflag_body_unguarded(p, text) ==
    LET args == split(text)
    IN  IF args = <<>>
        THEN [policy |-> p, reply |-> "Please provide a word to unflag!"]
        ELSE IF phrase_of(args) \in p.flagged
        THEN [policy |-> [p EXCEPT !.flagged = remove_word(@, phrase_of(args))],
              reply |-> "has been unflagged!"]
        ELSE [policy |-> p, reply |-> "KeyError"]

\* unflag_command taking the phrase out of banned_words as well.
unflag_body_from_both(p, text) ==
    LET args == split(text)
    IN  IF args = <<>>
        THEN [policy |-> p, reply |-> "Please provide a word to unflag!"]
        ELSE IF phrase_of(args) \in p.flagged
        THEN [policy |-> [p EXCEPT !.flagged = remove_word(@, phrase_of(args)),
                                   !.banned = remove_word(@, phrase_of(args))],
              reply |-> "has been unflagged!"]
        ELSE [policy |-> p, reply |-> "is not in the flagged list!"]

\* Lines 276-285.
unflag_body(p, text) ==
    LET args == split(text)
    IN  IF args = <<>>
        THEN [policy |-> p, reply |-> "Please provide a word to unflag!"]
        ELSE IF phrase_of(args) \in p.flagged
        THEN [policy |-> [p EXCEPT !.flagged = remove_word(@, phrase_of(args))],
              reply |-> "has been unflagged!"]
        ELSE [policy |-> p, reply |-> "is not in the flagged list!"]

\* Lines 293-302.
unban_body(p, text) ==
    LET args == split(text)
    IN  IF args = <<>>
        THEN [policy |-> p, reply |-> "Please provide a word to unban!"]
        ELSE IF phrase_of(args) \in p.banned
        THEN [policy |-> [p EXCEPT !.banned = remove_word(@, phrase_of(args))],
              reply |-> "has been unbanned!"]
        ELSE [policy |-> p, reply |-> "is not in the banned list!"]

\* Lines 206, 229 and 348.
on_words ==
    {<<"o", "n">>, <<"e", "n", "a", "b", "l", "e">>, <<"1">>,
     <<"t", "r", "u", "e">>}

\* Lines 209, 232 and 351.
off_words ==
    {<<"o", "f", "f">>, <<"d", "i", "s", "a", "b", "l", "e">>, <<"0">>,
     <<"f", "a", "l", "s", "e">>}

\* Lines 204-217, 227-240 and 346-359: the flag's new value and the reply.
toggle(value, text) ==
    LET args == split(text)
    IN  IF args # <<>>
        THEN IF lower(args[1]) \in on_words
             THEN [value |-> TRUE, reply |-> "is now ON!"]
             ELSE IF lower(args[1]) \in off_words
             THEN [value |-> FALSE, reply |-> "is now OFF!"]
             ELSE [value |-> value, reply |-> "Use: on or off"]
        ELSE [value |-> ~value,
              reply |-> IF ~value THEN "is now ON!" ELSE "is now OFF!"]

\* Lines 346-359.
toggle_links_body(p, text) ==
    LET r == toggle(p.links, text)
    IN  [policy |-> [p EXCEPT !.links = r.value], reply |-> r.reply]

\* toggle_joins writing auto_delete_links.
toggle_joins_body_on_links(p, text) ==
    LET r == toggle(p.joins, text)
    IN  [policy |-> [p EXCEPT !.links = r.value], reply |-> r.reply]

\* Lines 204-217.
toggle_joins_body(p, text) ==
    LET r == toggle(p.joins, text)
    IN  [policy |-> [p EXCEPT !.joins = r.value], reply |-> r.reply]

\* Lines 227-240.
toggle_promotions_body(p, text) ==
    LET r == toggle(p.promotions, text)
    IN  [policy |-> [p EXCEPT !.promotions = r.value], reply |-> r.reply]

\* The handlers of lines 41-48 that change the globals.
Commands ==
    {"flag_command", "ban_command", "unflag_command", "unban_command",
     "toggle_links", "toggle_joins", "toggle_promotions"}

command_body(handler, p, text) ==
    CASE handler = "flag_command" -> flag_body(p, text)
      [] handler = "ban_command" -> ban_body(p, text)
      [] handler = "unflag_command" -> unflag_body(p, text)
      [] handler = "unban_command" -> unban_body(p, text)
      [] handler = "toggle_links" -> toggle_links_body(p, text)
      [] handler = "toggle_joins" -> toggle_joins_body(p, text)
      [] handler = "toggle_promotions" -> toggle_promotions_body(p, text)

(***************************************************************************)
(* The updates the bot receives.                                           *)
(***************************************************************************)
\* The senders: one of ADMIN_IDS, one the chat has made administrator or
\* owner, and an ordinary member.
Users == {"5727413041", "1001", "1002"}

\* What get_chat_member reports for a sender when it does not raise
\* (line 74).
chat_status(user_id) ==
    IF user_id = "1001" THEN {"administrator", "creator"} ELSE {"member"}

\* What the lookup of a sender can end with (lines 73-77).
MemberLookups(user_id) == chat_status(user_id) \cup {"error"}

\* What the lookup of the bot itself can end with (lines 81-88).
BotLookups == {"administrator", "member", "error"}

\* What message.delete() can end with (lines 466-471).
DeleteOutcomes == {"ok", "error"}

\* The texts of the messages monitor_messages handles; <<>> is a message
\* without text (line 410).
MessageTexts ==
    {<<>>,
     <<"t", "h", "i", "s", " ", "i", "s", " ", "a", " ", "S", "C", "A", "M">>,
     <<"a", " ", "B", "I", "G", " ", " ", "S", "C", "A", "M">>,
     <<"B", "i", "g", " ", "S", "C", "A", "M", " ", "w", "w", "w", ".", "a",
       ".", "i", "o">>,
     <<"h", "t", "t", "p", "s", ":", "/", "/", "e", "x", "a", "m", "p", "l",
       "e", ".", "c", "o", "m">>,
     <<"v", "i", "s", "i", "t", " ", "w", "w", "w", ".", "e", "x", "a", "m",
       "p", "l", "e", ".", "c", "o", "m", " ", "n", "o", "w">>,
     <<"a", "i", "r", "d", "r", "o", "p", " ", "t", "o", "k", "e", "n">>,
     <<"a", "i", "r", "d", "r", "o", "p", " ", "t", "o", "k", "e", "n", " ",
       "t", ".", "m", "e", "/", "x">>}

\* The texts after /flag, /ban, /unflag and /unban.
PhraseTexts ==
    {<<" ", " ">>,
     <<" ", "S", "C", "A", "M", " ">>,
     <<"B", "i", "g", " ", " ", "S", "c", "a", "m">>}

\* The texts after /links, /joins and /promos.
ToggleTexts ==
    {<<>>, <<"o", "n">>, <<"O", "F", "F">>, <<"m", "a", "y", "b", "e">>}

\* The most runs suspended at an await at a time.
MaxInFlight == 1

\* A new run can be suspended.
Room == Len(runs) < MaxInFlight

\* The library hands the updates to the handlers one after another unless
\* the application is built to handle them concurrently (line 29 builds it
\* by default).  The runs here may interleave at their awaits, which
\* takes in every order the library can run them in.
\* A run of a handler: the update (handler, user, text), the await it is
\* suspended at (pc), what the lookups and the delete call ended with, the
\* verdict of monitor_messages, the reply of a command, and the globals just
\* before (pol) and just after (after) its last stretch.
new_run(handler, user, text) ==
    [handler |-> handler, user |-> user, text |-> text, pc |-> "done",
     bot_status |-> "none", member_status |-> "none",
     should_delete |-> FALSE, reason |-> "", word |-> <<>>,
     deleted |-> "none", reply |-> "", pol |-> initial_policy,
     after |-> initial_policy, mutated |-> FALSE,
     began |-> Len(log.commands)]

no_event == [handler |-> "none"]

\* What a suspended run keeps: not the globals it saw.
suspended(run) == [run EXCEPT !.pol = initial_policy, !.after = initial_policy]

\* The sequence s without its i-th element.
Without(s, i) == SubSeq(s, 1, i - 1) \o SubSeq(s, i + 1, Len(s))

\* A stretch of a run has ended: at an await of a lookup the run is
\* suspended; at its verdict or its end it is the event of the step, and
\* stays among the suspended runs while the delete call is under way.
\* `at` is the run's place among the suspended runs, 0 for a new run.
\* `changed` tells that the stretch changed the globals: the other runs
\* note that the globals changed while they were suspended.
Proceed(at, run, changed) ==
    LET others == IF at = 0 THEN runs ELSE Without(runs, at)
        rest == [j \in DOMAIN others |->
                    [others[j] EXCEPT !.mutated = @ \/ changed]]
        wait == run.pc # "done"
    IN  /\ runs' = IF wait THEN Append(rest, suspended(run)) ELSE rest
        /\ event' = IF run.pc \in {"delete", "done"} THEN run ELSE no_event
        /\ log' = IF log.on /\ run.pc = "done" /\ run.handler \in Commands
                  THEN [log EXCEPT !.commands = Append(@, run)]
                  ELSE log

\* A command without the is_admin check (lines 244-246 and alike).
command_run_for_anyone(run, admin) ==
    LET r == command_body(run.handler, policy, run.text)
    IN  [run EXCEPT !.pc = "done", !.reply = r.reply, !.pol = policy,
                    !.after = r.policy]

\* A command whose body works on a copy of the globals taken when the
\* module was loaded, and writes its result back.
command_run_on_copy(run, admin) ==
    IF admin
    THEN LET r == command_body(run.handler, initial_policy, run.text)
         IN  [run EXCEPT !.pc = "done", !.reply = r.reply, !.pol = policy,
                         !.after = r.policy]
    ELSE [run EXCEPT !.pc = "done", !.reply = "Only admins can use this",
                     !.pol = policy, !.after = policy]

\* A command from the is_admin check on (lines 244-254 and alike), for a
\* sender is_admin is true or false for.
command_run(run, admin) ==
    IF admin
    THEN LET r == command_body(run.handler, policy, run.text)
         IN  [run EXCEPT !.pc = "done", !.reply = r.reply, !.pol = policy,
                         !.after = r.policy]
    ELSE [run EXCEPT !.pc = "done", !.reply = "Only admins can use this",
                     !.pol = policy, !.after = policy]

\* A command arrives.  is_admin returns at once for a sender of ADMIN_IDS
\* (line 70) and the handler runs to its reply; for any other sender it
\* awaits get_chat_member (line 74).
command(handler, user, text) ==
    LET run == new_run(handler, user, text)
    IN  /\ event = no_event
        /\ IF in_admin_ids(user)
           THEN /\ Proceed(0, command_run(run, TRUE),
                           command_run(run, TRUE).after # policy)
                /\ SetPolicy(command_run(run, TRUE).after)
           ELSE /\ Proceed(0, [run EXCEPT !.pc = "is_admin"], FALSE)
                /\ UNCHANGED globals
        /\ UNCHANGED probe

flag_command(user, text) == command("flag_command", user, text)

ban_command(user, text) == command("ban_command", user, text)

unflag_command(user, text) == command("unflag_command", user, text)

unban_command(user, text) == command("unban_command", user, text)

toggle_links(user, text) == command("toggle_links", user, text)

toggle_joins(user, text) == command("toggle_joins", user, text)

toggle_promotions(user, text) == command("toggle_promotions", user, text)

\* monitor_messages without the check of line 410: the lookup of the bot is
\* awaited for a message without text too.
monitor_messages_any_text(user, text) ==
    LET run == [new_run("monitor_messages", user, text) EXCEPT
                   !.pol = policy, !.after = policy]
    IN  /\ event = no_event
        /\ Proceed(0, [run EXCEPT !.pc = "is_bot_admin"], FALSE)
        /\ UNCHANGED <<globals, probe>>

\* Lines 408-415: a text message arrives.  Without text the handler
\* returns; else it awaits the lookup of the bot's own membership.
monitor_messages(user, text) ==
    LET run == [new_run("monitor_messages", user, text) EXCEPT
                   !.pol = policy, !.after = policy]
    IN  /\ event = no_event
        /\ Proceed(0, IF text = <<>> THEN run
                      ELSE [run EXCEPT !.pc = "is_bot_admin"], FALSE)
        /\ UNCHANGED <<globals, probe>>

\* The handlers of the service messages (lines 51-58).
ServiceHandlers == {"delete_join_message", "delete_leave_message"}

\* The member a service message is about.
ServiceUsers == {"1002"}

\* delete_join_message reading the toggle of the links (line 146).
delete_join_message_on_links(user) ==
    LET run == [new_run("delete_join_message", user, <<>>) EXCEPT
                   !.pol = policy, !.after = policy]
    IN  /\ event = no_event
        /\ Proceed(0, IF auto_delete_links
                      THEN [run EXCEPT !.pc = "is_bot_admin"] ELSE run, FALSE)
        /\ UNCHANGED <<globals, probe>>

\* Lines 144-146: a join message arrives.  `and` reads auto_delete_joins
\* first: when it is off the handler returns without a lookup; else it
\* awaits the lookup of the bot's own membership.
delete_join_message(user) ==
    LET run == [new_run("delete_join_message", user, <<>>) EXCEPT
                   !.pol = policy, !.after = policy]
    IN  /\ event = no_event
        /\ Proceed(0, IF auto_delete_joins
                      THEN [run EXCEPT !.pc = "is_bot_admin"] ELSE run, FALSE)
        /\ UNCHANGED <<globals, probe>>

\* Lines 153-155: a leave message arrives; the same toggle is read.
delete_leave_message(user) ==
    LET run == [new_run("delete_leave_message", user, <<>>) EXCEPT
                   !.pol = policy, !.after = policy]
    IN  /\ event = no_event
        /\ Proceed(0, IF auto_delete_joins
                      THEN [run EXCEPT !.pc = "is_bot_admin"] ELSE run, FALSE)
        /\ UNCHANGED <<globals, probe>>

\* Lines 414-419: the lookup of the bot ends.  When the bot is no
\* administrator the handler returns; for a sender of ADMIN_IDS is_admin
\* returns True at once and the handler returns; else it awaits the lookup
\* of the sender.  Lines 146-148 and 155-157: a handler of a service
\* message returns when the bot is no administrator, and starts the delete
\* call else.
is_bot_admin_returns(i, status) ==
    /\ event = no_event
    /\ runs[i].pc = "is_bot_admin"
    /\ Proceed(i, [runs[i] EXCEPT
          !.bot_status = status, !.pol = policy, !.after = policy,
          !.pc = IF ~is_bot_admin(status) THEN "done"
                 ELSE IF runs[i].handler \in ServiceHandlers THEN "delete"
                 ELSE IF in_admin_ids(runs[i].user) THEN "done"
                 ELSE "is_admin"], FALSE)
    /\ UNCHANGED <<globals, probe>>

\* The lookup of the sender ends.  A command runs to its reply (lines
\* 244-254 and alike).  monitor_messages returns for an administrator
\* (line 419); else it reaches a verdict (lines 421-462) and either starts
\* the delete call (line 467) or returns.
is_admin_returns(i, status) ==
    /\ event = no_event
    /\ runs[i].pc = "is_admin"
    /\ LET run == [runs[i] EXCEPT !.member_status = status]
           admin == is_admin(run.user, status)
       IN  IF run.handler \in Commands
           THEN /\ Proceed(i, command_run(run, admin),
                           command_run(run, admin).after # policy)
                /\ SetPolicy(command_run(run, admin).after)
           ELSE /\ \E v \in (IF admin THEN {no_verdict}
                             ELSE classify(run.text, policy_read)) :
                     Proceed(i, [run EXCEPT
                        !.should_delete = v.should_delete,
                        !.reason = v.reason, !.word = v.word,
                        !.pol = policy, !.after = policy,
                        !.pc = IF v.should_delete THEN "delete" ELSE "done"],
                        FALSE)
                /\ UNCHANGED globals
    /\ UNCHANGED probe

\* The delete call made again when it raised.
delete_returns_and_retries(i, outcome) ==
    /\ event = no_event
    /\ runs[i].pc = "delete"
    /\ Proceed(i, [runs[i] EXCEPT
          !.deleted = outcome, !.pol = policy, !.after = policy,
          !.pc = IF outcome = "error" THEN "delete" ELSE "done"], FALSE)
    /\ UNCHANGED <<globals, probe>>

\* Lines 466-471, 147-151 and 156-160: the delete call ends; an exception
\* is logged.
delete_returns(i, outcome) ==
    /\ event = no_event
    /\ runs[i].pc = "delete"
    /\ Proceed(i, [runs[i] EXCEPT !.deleted = outcome, !.pc = "done",
                                  !.pol = policy, !.after = policy], FALSE)
    /\ UNCHANGED <<globals, probe>>

\* The step after an event: the event is over.
event_over ==
    /\ event # no_event
    /\ event' = no_event
    /\ UNCHANGED <<globals, runs, probe, log>>

(***************************************************************************)
(* is_promotional_message on its own: a text, then the call.               *)
(***************************************************************************)
PromoFragments ==
    {<<>>,
     <<"a", "i", "r", "d", "r", "o", "p">>,
     <<" ", "t", "o", "k", "e", "n">>,
     <<"b", "o", "n", "u", "s", " ">>,
     <<"F", "r", "e", "e", " ">>,
     <<"r", "e", "f", "e", "r", "r", "a", "l">>,
     <<"h", "e", "l", "l", "o", " ">>,
     <<"@", "x", "b", "o", "t", " ">>,
     <<"U+2022", "U+2022", "U+2022", "U+2022", "U+2022">>,
     <<"t", "h", "a", "n", "k", "s", " ", "p", "a", "t", "i", "e", "n", "c",
       "e", " ">>,
     <<"s", "u", "p", "p", "o", "r", "t">>,
     <<"n", "o", "t", "i", "c", "e", " ", "f", "r", "o", "m", " ">>,
     <<"c", "o", "r", "e">>}

\* The texts is_promotional_message is called with: two fragments in a row.
PromoTexts == {a \o b : a \in PromoFragments, b \in PromoFragments}

no_probe == [text |-> <<>>, called |-> FALSE, result |-> FALSE]

\* No command has ended, and the commands that end are not kept.
no_log == [on |-> FALSE, commands |-> <<>>]

\* Lines 90-142: the call.
call_is_promotional_message ==
    /\ ~probe.called
    /\ probe' = [probe EXCEPT !.called = TRUE,
                              !.result = is_promotional_message(probe.text)]
    /\ UNCHANGED <<globals, runs, event, log>>

\* The globals with auto_delete_links on from the start.
InitGlobals_links_on ==
    /\ flagged_words = {}
    /\ banned_words = {}
    /\ auto_delete_links = TRUE
    /\ auto_delete_joins = TRUE
    /\ auto_delete_promotions = TRUE
    /\ runs = <<>>
    /\ event = no_event

\* Lines 20-24: the globals when the module is loaded; no handler runs.
InitGlobals ==
    /\ flagged_words = {}
    /\ banned_words = {}
    /\ auto_delete_links = FALSE
    /\ auto_delete_joins = TRUE
    /\ auto_delete_promotions = TRUE
    /\ runs = <<>>
    /\ event = no_event

InitPromo ==
    /\ InitGlobals
    /\ log = no_log
    /\ \E text \in PromoTexts : probe = [no_probe EXCEPT !.text = text]

NextPromo == call_is_promotional_message

SpecPromo == InitPromo /\ [][NextPromo]_vars

(***************************************************************************)
(* The bot: updates arrive, and the suspended runs go on in any order.     *)
(***************************************************************************)
Init ==
    /\ InitGlobals
    /\ probe = no_probe
    /\ log = no_log

\* A command of `user` can start: it is suspended only for a sender that
\* is not of ADMIN_IDS.
CommandRoom(user) == in_admin_ids(user) \/ Room

\* monitor_messages can start: it is suspended unless the text is missing.
MessageRoom(text) == text = <<>> \/ Room

\* A handler of a service message can start: it is suspended unless the
\* toggle is off.
ServiceRoom == ~auto_delete_joins \/ Room

Next ==
    \/ \E user \in Users, text \in PhraseTexts :
          CommandRoom(user) /\ flag_command(user, text)
    \/ \E user \in Users, text \in PhraseTexts :
          CommandRoom(user) /\ ban_command(user, text)
    \/ \E user \in Users, text \in PhraseTexts :
          CommandRoom(user) /\ unflag_command(user, text)
    \/ \E user \in Users, text \in PhraseTexts :
          CommandRoom(user) /\ unban_command(user, text)
    \/ \E user \in Users, text \in ToggleTexts :
          CommandRoom(user) /\ toggle_links(user, text)
    \/ \E user \in Users, text \in ToggleTexts :
          CommandRoom(user) /\ toggle_joins(user, text)
    \/ \E user \in Users, text \in ToggleTexts :
          CommandRoom(user) /\ toggle_promotions(user, text)
    \/ \E user \in Users, text \in MessageTexts :
          MessageRoom(text) /\ monitor_messages(user, text)
    \/ \E user \in ServiceUsers :
          ServiceRoom /\ delete_join_message(user)
    \/ \E user \in ServiceUsers :
          ServiceRoom /\ delete_leave_message(user)
    \/ \E i \in DOMAIN runs, status \in BotLookups :
          is_bot_admin_returns(i, status)
    \/ \E i \in DOMAIN runs :
          \E status \in MemberLookups(runs[i].user) :
             is_admin_returns(i, status)
    \/ \E i \in DOMAIN runs, outcome \in DeleteOutcomes :
          delete_returns(i, outcome)
    \/ event_over

Spec == Init /\ [][Next]_vars

(***************************************************************************)
(* The commands on their own, several of them suspended at the lookup of   *)
(* their sender at a time, and each kept in log when it ends.              *)
(***************************************************************************)
\* The senders of the commands: one of ADMIN_IDS and one the chat has made
\* administrator or owner.
RaceUsers == {"5727413041", "1001"}

\* The text after /flag, /unflag, /ban and /unban.
RacePhraseTexts == {<<" ", "S", "C", "A", "M", " ">>}

\* The text after /joins: none.
RaceToggleTexts == {<<>>}

\* What the lookup of the sender of a command ends with (lines 73-77).
RaceLookups == {"administrator", "error"}

\* The most commands suspended at a time, and the most commands in all.
MaxRacing == 2

MaxCommands == 3

\* One more command can arrive and be suspended.
RaceRoom ==
    /\ Len(runs) < MaxRacing
    /\ Len(log.commands) + Len(runs) < MaxCommands

InitRace ==
    /\ InitGlobals
    /\ probe = no_probe
    /\ log = [no_log EXCEPT !.on = TRUE]

NextRace ==
    \/ \E user \in RaceUsers, text \in RacePhraseTexts :
          RaceRoom /\ flag_command(user, text)
    \/ \E user \in RaceUsers, text \in RacePhraseTexts :
          RaceRoom /\ ban_command(user, text)
    \/ \E user \in RaceUsers, text \in RacePhraseTexts :
          RaceRoom /\ unflag_command(user, text)
    \/ \E user \in RaceUsers, text \in RacePhraseTexts :
          RaceRoom /\ unban_command(user, text)
    \/ \E user \in RaceUsers, text \in RaceToggleTexts :
          RaceRoom /\ toggle_joins(user, text)
    \/ \E i \in DOMAIN runs, status \in RaceLookups :
          is_admin_returns(i, status)
    \/ event_over

SpecRace == InitRace /\ [][NextRace]_vars

(***************************************************************************)
(* The claims.  In a state with an event the globals are what the run of   *)
(* the event left, and for a run of monitor_messages what it decided on:   *)
(* no step but event_over is taken from such a state.                      *)
(***************************************************************************)
\* The run is of monitor_messages.
IsMessage(run) == run.handler = "monitor_messages"

\* The sender is of the static allow-list, or the membership lookup
\* reported administrator or owner.
PrivilegedSender(run) ==
    \/ run.user \in {"5727413041", "-1002139907201"}
    \/ run.member_status \in {"administrator", "creator"}

\* The sender is not of the allow-list and the chat has not made it
\* administrator or owner, whatever the lookup ends with.
OrdinarySender(run) ==
    /\ ~PrivilegedSender(run)
    /\ chat_status(run.user) = {"member"}

\* The event is a run of monitor_messages at its decision: it returned
\* without a delete call, or it started the delete call.
Decided == IsMessage(event) /\ event.deleted = "none"

\* The event is a run of monitor_messages at its decision, made by the
\* rules of lines 421-462: the bot is administrator and the lookup of the
\* sender was made.
Classified == Decided /\ event.member_status # "none"

\* The phrases of the two sets that occur in the text, any letter case.
FlaggedIn(text) == {w \in flagged_words : Contains(lower(text), w)}

BannedIn(text) == {w \in banned_words : Contains(lower(text), w)}

\* The verdict of a run.
Verdict(run) ==
    [should_delete |-> run.should_delete, reason |-> run.reason,
     word |-> run.word]

NoDeletion == [should_delete |-> FALSE, reason |-> "", word |-> <<>>]

\* The runs of monitor_messages, suspended or the event.
MessageRuns ==
    {runs[i] : i \in {j \in DOMAIN runs : IsMessage(runs[j])}}
        \cup (IF IsMessage(event) THEN {event} ELSE {})

\* C1: for every message whose sender is privileged (of the static
\* allow-list, or reported administrator or owner by the membership
\* lookup), monitor_messages never issues a delete and the verdict is no
\* deletion, whatever the word sets, the toggles and the text are.
C1_PrivilegeExemption ==
    \A run \in MessageRuns :
        PrivilegedSender(run) =>
            /\ Verdict(run) = NoDeletion
            /\ run.pc # "delete"
            /\ run.deleted = "none"

\* A message of a sender the lookup reports as administrator or owner has
\* returned, with a banned phrase and a link in it and link deletion on.
C1_Witness ==
    /\ Decided
    /\ event.pc = "done"
    /\ event.bot_status = "administrator"
    /\ event.member_status \in {"administrator", "creator"}
    /\ BannedIn(event.text) # {}
    /\ url_patterns(event.text)
    /\ auto_delete_links

\* The text holds a phrase of a word set and a link, and link deletion and
\* promotion deletion are on.
WordAndLink ==
    /\ FlaggedIn(event.text) \cup BannedIn(event.text) # {}
    /\ url_patterns(event.text)
    /\ auto_delete_links
    /\ auto_delete_promotions

WordReason ==
    /\ event.should_delete
    /\ event.reason \in {"flagged word", "banned word"}

\* C2 as stated: for every non-privileged message whose text holds a phrase
\* of banned_words or flagged_words and a link, with link deletion and
\* promotion deletion on, the verdict is a deletion with a word-based
\* reason, never the link reason.
C2_WordBeforeLink_AsStated ==
    (Decided /\ OrdinarySender(event) /\ WordAndLink) => WordReason

\* C2: the same for the messages classified while the bot is an
\* administrator of the chat.
C2_WordBeforeLink ==
    (Classified /\ ~PrivilegedSender(event) /\ WordAndLink) => WordReason

\* A message with a banned phrase and a link got the banned-word verdict
\* while link deletion was on.
C2_Witness ==
    /\ Classified
    /\ ~PrivilegedSender(event)
    /\ WordAndLink
    /\ BannedIn(event.text) # {}
    /\ event.pc = "delete"
    /\ event.reason = "banned word"

\* The text without the whitespace at its two ends.
trimmed(s) ==
    LET inked == {i \in DOMAIN s : s[i] \notin Whitespace}
    IN  IF inked = {} THEN <<>>
        ELSE SubSeq(s, CHOOSE i \in inked : \A j \in inked : i <= j,
                       CHOOSE i \in inked : \A j \in inked : j <= i)

\* What an add stores for the text x after the command: x lower-cased,
\* trimmed, each run of whitespace within it made one space.
stored_phrase(x) == lower(join(split(x)))

\* A step ends a command whose sender's lookup raised: the sender is told
\* that only admins can use it and the globals stay.  It ends the decision
\* on a message whose sender's lookup raised: the verdict is what the rules
\* give.  No lookup is ever made for a sender of the allow-list, whose
\* commands are not refused.
C4_FailClosedStep ==
    /\ (event'.handler \in Commands /\ event'.member_status = "error") =>
          /\ event'.reply = "Only admins can use this"
          /\ globals' = globals
    /\ (IsMessage(event') /\ event'.deleted = "none"
           /\ event'.member_status = "error") =>
          Verdict(event') \in classify(event'.text, policy)
    /\ \A i \in DOMAIN runs' :
          runs'[i].user \in {"5727413041", "-1002139907201"} =>
             runs'[i].member_status = "none"
    /\ (event'.handler # "none"
           /\ event'.user \in {"5727413041", "-1002139907201"}) =>
          /\ event'.member_status = "none"
          /\ event'.reply # "Only admins can use this"

\* C4: is_admin is fail-closed: for a sender not of the static allow-list
\* whose membership lookup raises, is_admin is false, so the sender's
\* command is refused without a change of the policy and the sender's
\* messages are classified like any non-privileged message; for a sender of
\* the allow-list is_admin is true without a lookup.
C4_FailClosed == [][C4_FailClosedStep]_vars

\* A flag command of a sender the chat has made administrator was refused
\* because the lookup raised.
C4_Witness ==
    /\ event.handler = "flag_command"
    /\ event.user = "1001"
    /\ event.member_status = "error"
    /\ event.reply = "Only admins can use this"
    /\ trimmed(event.text) # <<>>

\* The verdict is a deletion for the phrase w of the set with that reason.
MatchedAs(reason, w) ==
    /\ event.should_delete
    /\ event.reason = reason
    /\ event.word = w

\* C5 as stated: after an admin adds a phrase to flagged_words or
\* banned_words in any letter case and with whitespace around it, and until
\* it is removed (that is, while its stored form is in the set), every
\* non-privileged message whose text holds the lower-cased trimmed phrase
\* in any letter case gets a deletion verdict with the reason of that set
\* and the stored phrase as matched text.
C5_Normalization_AsStated ==
    (Decided /\ OrdinarySender(event)) =>
        \A x \in PhraseTexts :
            (/\ trimmed(x) # <<>>
             /\ Contains(lower(event.text), lower(trimmed(x)))) =>
                /\ stored_phrase(x) \in flagged_words =>
                      MatchedAs("flagged word", stored_phrase(x))
                /\ stored_phrase(x) \in banned_words =>
                      MatchedAs("banned word", stored_phrase(x))

\* C5: an add by an admin stores the phrase lower-cased, trimmed and with
\* each run of whitespace within it made one space; while a phrase is
\* stored, every non-privileged message classified while the bot is
\* administrator whose lower-cased text holds a stored phrase gets a
\* deletion verdict with a word-based reason: the flagged reason and a
\* flagged phrase of the text when there is one, else the banned reason and
\* a banned phrase of the text.
C5_Normalization ==
    /\ (event.handler = "flag_command" /\ PrivilegedSender(event)
           /\ trimmed(event.text) # <<>>) =>
          stored_phrase(event.text) \in flagged_words
    /\ (event.handler = "ban_command" /\ PrivilegedSender(event)
           /\ trimmed(event.text) # <<>>) =>
          stored_phrase(event.text) \in banned_words
    /\ (Classified /\ ~PrivilegedSender(event)) =>
          /\ FlaggedIn(event.text) # {} =>
                \E w \in FlaggedIn(event.text) : MatchedAs("flagged word", w)
          /\ (FlaggedIn(event.text) = {} /\ BannedIn(event.text) # {}) =>
                \E w \in BannedIn(event.text) : MatchedAs("banned word", w)

\* "this is a SCAM" got the flagged-word verdict for the phrase "scam", the
\* only flagged phrase, stored by a flag command.
C5_Witness ==
    /\ Classified
    /\ ~PrivilegedSender(event)
    /\ event.text =
          <<"t", "h", "i", "s", " ", "i", "s", " ", "a", " ", "S", "C", "A",
            "M">>
    /\ flagged_words = {stored_phrase(<<" ", "S", "C", "A", "M", " ">>)}
    /\ MatchedAs("flagged word", <<"s", "c", "a", "m">>)

\* C6: while link deletion is off, a non-privileged message that holds no
\* phrase of flagged_words or banned_words and that the promotional
\* heuristic does not flag gets the verdict of no deletion and no delete
\* call, whatever links it holds.
C6_LinkToggleGating ==
    (/\ Decided
     /\ ~PrivilegedSender(event)
     /\ ~auto_delete_links
     /\ FlaggedIn(event.text) = {}
     /\ BannedIn(event.text) = {}
     /\ ~is_promotional_message(event.text)) =>
        /\ Verdict(event) = NoDeletion
        /\ event.pc = "done"

\* "https://example.com" was classified with link deletion off and kept.
C6_Witness ==
    /\ Classified
    /\ event.member_status = "member"
    /\ ~auto_delete_links
    /\ event.text =
          <<"h", "t", "t", "p", "s", ":", "/", "/", "e", "x", "a", "m", "p",
            "l", "e", ".", "c", "o", "m">>
    /\ url_patterns(event.text)
    /\ event.pc = "done"

\* The globals as they are when the module is loaded.
Defaults ==
    /\ flagged_words = {}
    /\ banned_words = {}
    /\ auto_delete_links = FALSE
    /\ auto_delete_joins = TRUE
    /\ auto_delete_promotions = TRUE

\* C7 as stated: in the initial state the word sets are empty and the
\* toggles are links off, joins on, promotions on; in that state a
\* non-privileged message is deleted if and only if the promotional
\* heuristic flags it.
C7_InitialState_AsStated ==
    /\ Defaults
    /\ []((Decided /\ OrdinarySender(event) /\ Defaults) =>
             (event.should_delete <=> is_promotional_message(event.text)))

\* C7: the initial state is as stated, and in that state a non-privileged
\* message classified while the bot is administrator gets a deletion
\* verdict, with the promotional reason, if and only if the promotional
\* heuristic flags it; the link-only text "visit www.example.com now" gets
\* no deletion.
C7_InitialState ==
    /\ Defaults
    /\ []((Classified /\ ~PrivilegedSender(event) /\ Defaults) =>
             /\ event.should_delete <=> is_promotional_message(event.text)
             /\ event.should_delete =>
                   event.reason = "promotional/spam content"
             /\ ~event.should_delete => Verdict(event) = NoDeletion)

\* With the globals as loaded, "visit www.example.com now" was classified
\* and kept.
C7_Witness ==
    /\ Classified
    /\ ~PrivilegedSender(event)
    /\ Defaults
    /\ event.text =
          <<"v", "i", "s", "i", "t", " ", "w", "w", "w", ".", "e", "x", "a",
            "m", "p", "l", "e", ".", "c", "o", "m", " ", "n", "o", "w">>
    /\ url_patterns(event.text)
    /\ Verdict(event) = NoDeletion

\* A step that ends an add of a phrase whose stored form is a member leaves
\* the set as it is; a step that ends a remove of a phrase whose stored
\* form is no member leaves all the globals and replies that the phrase is
\* not in the list.
C8_IdempotenceStep ==
    LET phrase == stored_phrase(event'.text)
        asked == PrivilegedSender(event') /\ trimmed(event'.text) # <<>>
    IN  /\ (event'.handler = "flag_command" /\ asked
               /\ phrase \in flagged_words) =>
              /\ flagged_words' = flagged_words
              /\ Cardinality(flagged_words') = Cardinality(flagged_words)
        /\ (event'.handler = "ban_command" /\ asked
               /\ phrase \in banned_words) =>
              /\ banned_words' = banned_words
              /\ Cardinality(banned_words') = Cardinality(banned_words)
        /\ (event'.handler = "unflag_command" /\ asked
               /\ phrase \notin flagged_words) =>
              /\ globals' = globals
              /\ event'.reply = "is not in the flagged list!"
        /\ (event'.handler = "unban_command" /\ asked
               /\ phrase \notin banned_words) =>
              /\ globals' = globals
              /\ event'.reply = "is not in the banned list!"

\* C8: adding to flagged_words (or banned_words) a phrase whose normalized
\* form is a member leaves the set unchanged, in members and in size;
\* removing a phrase whose normalized form is no member leaves the two sets
\* and the toggles unchanged and reports that it is not in the list.
C8_Idempotence == [][C8_IdempotenceStep]_vars

\* A flag command of an admin ended for a phrase that was flagged before.
C8_Witness ==
    /\ event.handler = "flag_command"
    /\ PrivilegedSender(event)
    /\ trimmed(event.text) # <<>>
    /\ stored_phrase(event.text) \in event.pol.flagged
    /\ event.reply = "has been flagged!"
    /\ flagged_words = event.pol.flagged

\* A step that ends a flag or ban command without a phrase leaves the
\* globals, and an admin is asked for a word; the empty phrase is in
\* neither set before and after any step.
C9_EmptyPhraseStep ==
    /\ (event'.handler \in {"flag_command", "ban_command"}
           /\ trimmed(event'.text) = <<>>) =>
          /\ globals' = globals
          /\ PrivilegedSender(event') =>
                event'.reply \in {"Please provide a word to flag!",
                                  "Please provide a word to ban!"}
    /\ <<>> \notin flagged_words \cup banned_words
    /\ <<>> \notin flagged_words' \cup banned_words'

\* C9: a flag or ban command whose phrase is empty after trimming is
\* rejected and leaves the word sets and the toggles unchanged; so in every
\* reachable state the empty string is a member of neither set.
C9_EmptyPhrase == [][C9_EmptyPhraseStep]_vars

\* A flag command of an admin with nothing but spaces after it was refused
\* while a phrase was flagged.
C9_Witness ==
    /\ event.handler = "flag_command"
    /\ PrivilegedSender(event)
    /\ event.text = <<" ", " ">>
    /\ event.reply = "Please provide a word to flag!"
    /\ flagged_words # {}

\* C10: under any interleaving of runs of monitor_messages with admin
\* commands at their awaits, the verdict of a classification is what the
\* rules give on the word sets and toggles as they are at one instant of
\* the run, the one of the decision; no verdict mixes values from before
\* and after a command.
C10_OneInstant ==
    (Classified /\ ~PrivilegedSender(event)) =>
        Verdict(event) \in classify(event.text, policy)

\* A message was deleted for its link by a run during whose awaits a
\* command changed the globals.
C10_Witness ==
    /\ Classified
    /\ ~PrivilegedSender(event)
    /\ event.mutated
    /\ event.pc = "delete"
    /\ event.reason = "contains link"

\* The keywords of promo_keywords found in text_lower, a keyword that is
\* part of a longer one found there not counted again: "airdrop" holds one.
written_keywords(text_lower) ==
    {n \in DOMAIN promo_keywords :
        /\ Contains(text_lower, promo_keywords[n])
        /\ ~\E m \in DOMAIN promo_keywords :
              /\ m # n
              /\ Contains(text_lower, promo_keywords[m])
              /\ Contains(promo_keywords[m], promo_keywords[n])}

\* No bot mention, no run of emoji and no phrase pattern in the text.
NoPromoSignal(text) ==
    /\ ~has_bot_mentions(text)
    /\ ~has_excessive_emojis(text)
    /\ ~promotional_patterns(text)

\* C3: is_promotional_message returns false for every text that holds
\* exactly one promotional keyword (the text "airdrop" is one) and no bot
\* mention, no emoji run and no phrase pattern, and true once a second
\* keyword is added (as in "airdrop token").
C3_OneKeywordIsNotPromotional ==
    probe.called =>
        /\ (/\ Cardinality(written_keywords(lower(probe.text))) = 1
            /\ NoPromoSignal(probe.text)) => ~probe.result
        /\ probe.text = <<"a", "i", "r", "d", "r", "o", "p">> => ~probe.result
        /\ Cardinality(written_keywords(lower(probe.text))) >= 2
              => probe.result

\* The globals after the commands of `commands` ran one after another, in
\* that order, from the globals as loaded; only an admin's command acts.
RECURSIVE Replay(_)
Replay(commands) ==
    IF commands = <<>> THEN initial_policy
    ELSE LET before == Replay(SubSeq(commands, 1, Len(commands) - 1))
             last == commands[Len(commands)]
         IN  IF PrivilegedSender(last)
             THEN command_body(last.handler, before, last.text).policy
             ELSE before

\* The joins commands without an argument that ended, sent by an admin.
JoinsFlips ==
    {i \in DOMAIN log.commands :
        /\ log.commands[i].handler = "toggle_joins"
        /\ PrivilegedSender(log.commands[i])
        /\ split(log.commands[i].text) = <<>>}

\* C11: every mutation is atomic: whatever way the admin commands
\* interleave at their awaits, the word sets and toggles are those that the
\* commands that ended give when run one after another in the order they
\* ended in; no joins command without an argument is lost: after n of them
\* the toggle is its initial value (on) flipped n times.
C11_AtomicMutations ==
    /\ policy = Replay(log.commands)
    /\ auto_delete_joins = (Cardinality(JoinsFlips) % 2 = 0)

\* Three joins commands of admins ended, the second of which arrived before
\* the first ended and found the toggle changed after its await.
C11_Witness ==
    /\ Len(log.commands) = 3
    /\ Cardinality(JoinsFlips) = 3
    /\ log.commands[2].began = 0
    /\ log.commands[2].mutated
    /\ runs = <<>>
    /\ ~auto_delete_joins

\* A step that ends a command of a sender is_admin is false for leaves the
\* globals and tells the sender that only admins can use it; a step that
\* changes the globals ends a command of a sender is_admin is true for.
C12_AdminOnlyStep ==
    /\ (event'.handler \in Commands /\ ~PrivilegedSender(event')) =>
          /\ globals' = globals
          /\ event'.reply = "Only admins can use this"
    /\ globals' # globals =>
          /\ event'.handler \in Commands
          /\ PrivilegedSender(event')

\* C12: a flag, ban, unflag, unban, links, joins or promos command of a
\* sender for whom is_admin is false leaves the word sets and the three
\* toggles unchanged; the policy changes only as the effect of a command of
\* a privileged sender.
C12_AdminOnly == [][C12_AdminOnlyStep]_vars

\* An ordinary member's unflag command for a flagged phrase was refused.
C12_Witness ==
    /\ event.handler = "unflag_command"
    /\ event.member_status = "member"
    /\ stored_phrase(event.text) \in flagged_words
    /\ event.reply = "Only admins can use this"

\* The verdicts there are when the word sets are `flagged` and `banned`:
\* no deletion, or a deletion for one of the four reasons, with the phrase
\* found for the two word reasons.
Verdicts(flagged, banned) ==
    {NoDeletion}
        \cup {[should_delete |-> TRUE, reason |-> r, word |-> <<>>] :
                 r \in {"promotional/spam content", "contains link"}}
        \cup {[should_delete |-> TRUE, reason |-> "flagged word", word |-> w] :
                 w \in flagged}
        \cup {[should_delete |-> TRUE, reason |-> "banned word", word |-> w] :
                 w \in banned}

\* The phrases a flag or ban command can store.
Phrases == {stored_phrase(x) : x \in PhraseTexts} \ {<<>>}

\* C13: classification has no error path: whatever the message and the
\* policy are when a run of monitor_messages has come to the rules, they
\* gave a verdict; a run is at one of its awaits or has ended, and it ends
\* with a verdict; a message without text gets no deletion, at once and
\* without a delete call.
C13_NoErrorPath ==
    /\ Classified =>
          /\ classify(event.text, policy) # {}
          /\ classify(event.text, policy)
                \subseteq Verdicts(flagged_words, banned_words)
          /\ Verdict(event) \in Verdicts(flagged_words, banned_words)
    /\ \A run \in MessageRuns :
          /\ run.pc \in {"is_bot_admin", "is_admin", "delete", "done"}
          /\ Verdict(run) \in Verdicts(Phrases, Phrases)
          /\ run.pc = "delete" => run.should_delete
          /\ run.deleted # "none" => (run.pc = "done" /\ run.should_delete)
          /\ run.text = <<>> =>
                /\ Verdict(run) = NoDeletion
                /\ run.pc = "done"
                /\ run.bot_status = "none"
                /\ run.deleted = "none"

\* A message without text has returned while a phrase was flagged and link
\* deletion was on.
C13_Witness ==
    /\ Decided
    /\ event.text = <<>>
    /\ event.pc = "done"
    /\ flagged_words # {}
    /\ auto_delete_links

\* The number of entries of the keyword list that occur in the lower-cased
\* text, each entry counted once.
KeywordCount(text) ==
    Cardinality({n \in DOMAIN promo_keywords :
                    Contains(lower(text), promo_keywords[n])})

\* C14: with k the number of keywords of the list that occur in the
\* lower-cased text, each entry counted at most once,
\* is_promotional_message is true if and only if k >= 2, or a bot mention
\* is there and k >= 1, or a run of emoji is there and k >= 1, or a phrase
\* pattern matches; a bot mention or a run of emoji with k = 0 and no
\* phrase pattern gives false.
C14_PromotionalFormula ==
    probe.called =>
        LET k == KeywordCount(probe.text)
        IN  /\ probe.result <=>
                  \/ k >= 2
                  \/ has_bot_mentions(probe.text) /\ k >= 1
                  \/ has_excessive_emojis(probe.text) /\ k >= 1
                  \/ promotional_patterns(probe.text)
            /\ (k = 0 /\ ~promotional_patterns(probe.text)) => ~probe.result

\* is_promotional_message gave false for a text with a bot mention and a
\* run of emoji but no keyword and no phrase pattern.
C14_Witness ==
    /\ probe.called
    /\ has_bot_mentions(probe.text)
    /\ has_excessive_emojis(probe.text)
    /\ KeywordCount(probe.text) = 0
    /\ ~promotional_patterns(probe.text)
    /\ ~probe.result

\* The reason of the first rule that applies to the text, in the order
\* flagged word, banned word, promotional (when promotion deletion is on),
\* link (when link deletion is on); "" when none applies.
FirstRule(text) ==
    IF FlaggedIn(text) # {} THEN "flagged word"
    ELSE IF BannedIn(text) # {} THEN "banned word"
    ELSE IF auto_delete_promotions /\ is_promotional_message(text)
    THEN "promotional/spam content"
    ELSE IF auto_delete_links /\ url_patterns(text) THEN "contains link"
    ELSE ""

\* The verdict of the event is the one of the first rule that applies.
ByFirstRule ==
    /\ event.reason = FirstRule(event.text)
    /\ event.should_delete <=> FirstRule(event.text) # ""
    /\ FirstRule(event.text) = "" => Verdict(event) = NoDeletion

\* C15 as stated: for every non-privileged message and every policy state
\* the verdict reason is the first rule that applies in the order flagged
\* word, banned word, promotional (only when promotion deletion is on),
\* link (only when link deletion is on), and no deletion when none applies.
C15_RuleOrder_AsStated == (Decided /\ OrdinarySender(event)) => ByFirstRule

\* C15: the same for the messages classified while the bot is an
\* administrator of the chat.
C15_RuleOrder == (Classified /\ ~PrivilegedSender(event)) => ByFirstRule

\* A promotional text with a link in it got the promotional verdict while
\* promotion deletion and link deletion were both on.
C15_Witness ==
    /\ Classified
    /\ ~PrivilegedSender(event)
    /\ auto_delete_promotions
    /\ auto_delete_links
    /\ is_promotional_message(event.text)
    /\ url_patterns(event.text)
    /\ FlaggedIn(event.text) \cup BannedIn(event.text) = {}
    /\ event.pc = "delete"
    /\ event.reason = "promotional/spam content"

\* A flag or unflag command leaves banned_words, a ban or unban command
\* leaves flagged_words.
OneSetStep ==
    /\ event'.handler \in {"flag_command", "unflag_command"} =>
          banned_words' = banned_words
    /\ event'.handler \in {"ban_command", "unban_command"} =>
          flagged_words' = flagged_words

\* The verdict of the event for a text that holds the phrase w and no
\* other stored phrase: the flagged reason while w is flagged, banned or
\* not; the banned reason while w is banned only; no word reason when w is
\* in neither set.
BySetsOf(w) ==
    /\ w \in flagged_words => MatchedAs("flagged word", w)
    /\ (w \notin flagged_words /\ w \in banned_words) =>
          MatchedAs("banned word", w)
    /\ (w \notin flagged_words /\ w \notin banned_words) =>
          event.reason \notin {"flagged word", "banned word"}

\* The phrases that occur in the text of the event and are the only stored
\* phrase that does.
LonePhrases ==
    {w \in Phrases :
        /\ Contains(lower(event.text), w)
        /\ FlaggedIn(event.text) \cup BannedIn(event.text) \subseteq {w}}

\* C16 as stated: flagged_words and banned_words are independent sets, an
\* add or remove on one never changes the other; when a phrase is in both,
\* a non-privileged message that holds it is deleted with the flagged
\* reason; once it is removed from flagged_words only, with the banned
\* reason; it stops matching only when it is in neither set.
C16_IndependentSets_AsStated ==
    [][/\ OneSetStep
       /\ (Decided /\ OrdinarySender(event))' =>
             (\A w \in LonePhrases : BySetsOf(w))']_vars

\* C16: the same for the messages classified while the bot is an
\* administrator of the chat.
C16_IndependentSets ==
    [][/\ OneSetStep
       /\ (Classified /\ ~PrivilegedSender(event))' =>
             (\A w \in LonePhrases : BySetsOf(w))']_vars

\* "this is a SCAM" got the banned-word verdict while "scam" was banned
\* and not flagged.
C16_Witness ==
    /\ Classified
    /\ ~PrivilegedSender(event)
    /\ <<"s", "c", "a", "m">> \in LonePhrases
    /\ <<"s", "c", "a", "m">> \in banned_words \ flagged_words
    /\ MatchedAs("banned word", <<"s", "c", "a", "m">>)

\* C17: a committed mutation is visible to every later classification:
\* when a run of monitor_messages reads the globals while a phrase that was
\* added is in flagged_words or banned_words (after the add, before a
\* removal), the bot being administrator, it issues the delete call for a
\* non-privileged message that holds the phrase, also when the message
\* arrived before the add; a run that keeps such a message read the
\* globals while the phrase was in neither set.
C17_CommittedIsVisible ==
    (Classified /\ ~PrivilegedSender(event)) =>
        /\ FlaggedIn(event.text) \cup BannedIn(event.text) # {} =>
              /\ event.should_delete
              /\ event.pc = "delete"
              /\ event.reason \in {"flagged word", "banned word"}
        /\ ~event.should_delete =>
              \A w \in Phrases :
                 Contains(lower(event.text), w) =>
                    w \notin flagged_words \cup banned_words

\* The delete call was issued for "this is a SCAM" by a run during whose
\* awaits the globals changed and that read "scam" as the one stored
\* phrase.
C17_Witness ==
    /\ Classified
    /\ ~PrivilegedSender(event)
    /\ event.mutated
    /\ event.text =
          <<"t", "h", "i", "s", " ", "i", "s", " ", "a", " ", "S", "C", "A",
            "M">>
    /\ flagged_words \cup banned_words = {<<"s", "c", "a", "m">>}
    /\ event.pc = "delete"

\* What the set a remove command works on holds in the globals p, the
\* command that adds to it, and its two replies.
RemovedFrom(handler, p) ==
    IF handler = "unflag_command" THEN p.flagged ELSE p.banned

AdderOf(handler) ==
    IF handler = "unflag_command" THEN "flag_command" ELSE "ban_command"

RemovedReply(handler) ==
    IF handler = "unflag_command" THEN "has been unflagged!"
    ELSE "has been unbanned!"

NotFoundReply(handler) ==
    IF handler = "unflag_command" THEN "is not in the flagged list!"
    ELSE "is not in the banned list!"

\* The i-th and the j-th command that ended are two unflag (or two unban)
\* commands of admins for one phrase that ran concurrently (the j-th
\* arrived before the i-th ended) while the phrase was a member, with no
\* add of the phrase ending between them.
RacingRemovals(i, j) ==
    LET first == log.commands[i]
        second == log.commands[j]
    IN  /\ i < j
        /\ first.handler \in {"unflag_command", "unban_command"}
        /\ second.handler = first.handler
        /\ PrivilegedSender(first)
        /\ PrivilegedSender(second)
        /\ trimmed(first.text) # <<>>
        /\ stored_phrase(second.text) = stored_phrase(first.text)
        /\ second.began < i
        /\ stored_phrase(first.text) \in RemovedFrom(first.handler, first.pol)
        /\ \A k \in (i + 1)..(j - 1) :
              ~(/\ log.commands[k].handler = AdderOf(first.handler)
                /\ PrivilegedSender(log.commands[k])
                /\ stored_phrase(log.commands[k].text)
                      = stored_phrase(first.text))

\* C18: when two unflag (or two unban) commands for one phrase run
\* concurrently while the phrase is a member and no add of it intervenes,
\* exactly one replies that the phrase was removed and the other that it
\* is not in the list; neither raises, and afterwards the phrase is no
\* member.
C18_RacingRemovals ==
    \A i \in DOMAIN log.commands, j \in DOMAIN log.commands :
        RacingRemovals(i, j) =>
            LET first == log.commands[i]
                second == log.commands[j]
            IN  /\ first.reply = RemovedReply(first.handler)
                /\ second.reply = NotFoundReply(first.handler)
                /\ stored_phrase(first.text)
                      \notin RemovedFrom(first.handler, second.after)

\* "scam" was flagged, and two unflag commands for it that waited for
\* their lookups at the same time have ended.
C18_Witness ==
    /\ Len(log.commands) = 3
    /\ log.commands[1].handler = "flag_command"
    /\ log.commands[2].handler = "unflag_command"
    /\ RacingRemovals(2, 3)
    /\ log.commands[3].user = "1001"
    /\ log.commands[2].user = "1001"
    /\ flagged_words = {}

\* A step of a run of monitor_messages leaves the globals.  The delete call
\* is issued by the step that ends the lookup of the sender, for a run no
\* delete call was issued for; the step that ends the delete call, raised
\* or not, ends the handler, so that no suspended run has a delete call
\* behind it.
C19_OneDeleteStep ==
    /\ (event' = no_event \/ IsMessage(event')) => globals' = globals
    /\ (IsMessage(event') /\ event'.pc = "delete") =>
          /\ event'.deleted = "none"
          /\ \E i \in DOMAIN runs :
                /\ runs[i].pc = "is_admin"
                /\ runs[i].user = event'.user
                /\ runs[i].text = event'.text
    /\ (IsMessage(event') /\ event'.deleted # "none") =>
          /\ event'.pc = "done"
          /\ \E i \in DOMAIN runs :
                /\ runs[i].pc = "delete"
                /\ runs[i].deleted = "none"
                /\ runs' = Without(runs, i)
    /\ \A i \in DOMAIN runs' : runs'[i].deleted = "none"

\* C19: for each message at most one delete call is issued; when it fails
\* it is not retried and the handler still completes; the word sets and
\* the toggles are left unchanged by the whole run of monitor_messages,
\* whether the delete succeeds or fails.
C19_OneDelete == [][C19_OneDeleteStep]_vars

\* The delete call for a message with a flagged phrase raised, and the
\* handler has ended.
C19_Witness ==
    /\ IsMessage(event)
    /\ event.deleted = "error"
    /\ event.pc = "done"
    /\ event.reason = "flagged word"
    /\ runs = <<>>

\* What a toggle command of a privileged sender makes of its toggle, which
\* is `value` before the step and `value_after` after it.
Toggled(text, value, value_after) ==
    LET args == split(text)
        arg == lower(args[1])
    IN  IF args = <<>> THEN value_after = ~value
        ELSE IF arg \in {<<"o", "n">>, <<"e", "n", "a", "b", "l", "e">>,
                         <<"1">>, <<"t", "r", "u", "e">>}
        THEN value_after = TRUE
        ELSE IF arg \in {<<"o", "f", "f">>,
                         <<"d", "i", "s", "a", "b", "l", "e">>, <<"0">>,
                         <<"f", "a", "l", "s", "e">>}
        THEN value_after = FALSE
        ELSE value_after = value

\* A step that ends a links, joins or promos command of a privileged sender
\* sets the command's own toggle by its argument and leaves the two other
\* toggles and the two word sets.
C20_ToggleFrameStep ==
    /\ (event'.handler = "toggle_links" /\ PrivilegedSender(event')) =>
          /\ Toggled(event'.text, auto_delete_links, auto_delete_links')
          /\ UNCHANGED <<flagged_words, banned_words, auto_delete_joins,
                         auto_delete_promotions>>
    /\ (event'.handler = "toggle_joins" /\ PrivilegedSender(event')) =>
          /\ Toggled(event'.text, auto_delete_joins, auto_delete_joins')
          /\ UNCHANGED <<flagged_words, banned_words, auto_delete_links,
                         auto_delete_promotions>>
    /\ (event'.handler = "toggle_promotions" /\ PrivilegedSender(event')) =>
          /\ Toggled(event'.text, auto_delete_promotions,
                     auto_delete_promotions')
          /\ UNCHANGED <<flagged_words, banned_words, auto_delete_links,
                         auto_delete_joins>>

\* C20: a links, joins or promos command of a privileged sender changes
\* only its own toggle: an on-like argument makes it true and an off-like
\* argument false, whatever it was; without an argument it is inverted;
\* with an unrecognized argument nothing changes; the two other toggles and
\* the two word sets are always left unchanged.
C20_ToggleFrame == [][C20_ToggleFrameStep]_vars

\* A joins command with the argument "OFF" of an admin ended while join
\* deletion was off already and link deletion was on.
C20_Witness ==
    /\ event.handler = "toggle_joins"
    /\ PrivilegedSender(event)
    /\ event.text = <<"O", "F", "F">>
    /\ ~event.pol.joins
    /\ ~auto_delete_joins
    /\ auto_delete_links
    /\ event.reply = "is now OFF!"

\* The run is of a handler of a service message.
IsService(run) == run.handler \in ServiceHandlers

\* The runs that may end in a delete call, suspended or the event.
DeletingRuns ==
    {runs[i] : i \in {j \in DOMAIN runs :
                         IsMessage(runs[j]) \/ IsService(runs[j])}}
        \cup (IF IsMessage(event) \/ IsService(event) THEN {event} ELSE {})

\* The run has started its delete call.
DeleteIssued(run) == run.pc = "delete" \/ run.deleted # "none"

\* C21: a run of monitor_messages, delete_join_message or
\* delete_leave_message has started a delete call only after the lookup of
\* the bot's own membership reported administrator; when the lookup
\* reported another status or raised, the run ends without a delete call
\* and without a verdict, whatever the word sets, the toggles and the text
\* are.
C21_BotAdminGate ==
    \A run \in DeletingRuns :
       /\ DeleteIssued(run) => run.bot_status = "administrator"
       /\ run.bot_status \in {"member", "error"} =>
             /\ run.pc = "done"
             /\ run.deleted = "none"
             /\ run.member_status = "none"
             /\ Verdict(run) = NoDeletion

\* The lookup of the bot raised for a message of a member that holds a
\* flagged phrase and a link while link deletion was on: the handler
\* ended without a delete call.
C21_Witness ==
    /\ IsMessage(event)
    /\ event.bot_status = "error"
    /\ ~in_admin_ids(event.user)
    /\ FlaggedIn(event.text) # {}
    /\ url_patterns(event.text)
    /\ auto_delete_links
    /\ event.deleted = "none"

\* A step of a handler of a service message, and the verdict of a text
\* message under the other value of the toggle of the joins.
C22_ServiceStep ==
    /\ (IsService(event') /\ event'.bot_status = "none") =>
          /\ ~auto_delete_joins
          /\ event'.pc = "done"
          /\ event'.deleted = "none"
          /\ runs' = runs
    /\ (Len(runs') = Len(runs) + 1 /\ IsService(runs'[Len(runs')])) =>
          /\ auto_delete_joins
          /\ runs'[Len(runs')].pc = "is_bot_admin"
    /\ (IsService(event') /\ event'.bot_status # "none"
          /\ event'.deleted = "none") =>
          /\ \E i \in DOMAIN runs :
                IsService(runs[i]) /\ runs[i].pc = "is_bot_admin"
          /\ event'.pc = "delete" <=> event'.bot_status = "administrator"
    /\ (IsService(event') /\ event'.deleted # "none") =>
          \E i \in DOMAIN runs :
             /\ IsService(runs[i])
             /\ runs[i].pc = "delete"
             /\ runs[i].bot_status = "administrator"
    /\ ((Classified /\ ~PrivilegedSender(event)) =>
          Verdict(event) \in
             classify(event.text, [policy EXCEPT !.joins = ~@]))'

\* C22: a handler of a service message awaits the lookup of the bot exactly
\* when the toggle of the joins is on as it reads it (lines 146 and 155),
\* and starts the delete call exactly when that lookup reports
\* administrator: a join or leave message is deleted only if the toggle was
\* on and the bot is administrator, whatever the two word sets and the
\* toggles of the links and the promotions are; and the verdict of a text
\* message of a non-privileged sender is one the rules give with the
\* toggle of the joins inverted.
C22_JoinLeaveToggle == [][C22_ServiceStep]_vars

\* A leave message was deleted while a phrase was flagged, link deletion
\* was on and promotion deletion was off.
C22_Witness ==
    /\ event.handler = "delete_leave_message"
    /\ event.bot_status = "administrator"
    /\ event.deleted = "ok"
    /\ flagged_words # {}
    /\ auto_delete_links
    /\ ~auto_delete_promotions

=============================================================================
